---- MODULE Spec2Model ----
(***************************************************************************)
(* Model of pdf_to_word_with_toc.py: the batch driver (__main__) and the   *)
(* per-document pipeline pdf_to_word_with_toc (exists check, rasterizer,   *)
(* TOC header, one OCR call and one section per page, save).               *)
(*                                                                         *)
(* The three external capabilities (pdf2image, pytesseract, python-docx    *)
(* save) are the environment: the rasterizer and the OCR engine are        *)
(* deterministic in the file they read but may raise at any call, and a    *)
(* save may fail; a failed save is taken to write nothing.                 *)
(***************************************************************************)
EXTENDS Integers, Sequences, FiniteSets

\* ---------------------------------------------------------------- bounds
MaxInputs == 2
MaxPages == 2

\* Texts the OCR engine may recognise on a page ("" = nothing recognised).
Texts == {"", "Alpha"}

\* ----------------------------------------------------------------- paths
\* A path is its directory, the stem of its last component and its suffix.
MkPath(d, s, x) == [dir |-> d, stem |-> s, suffix |-> x]

\* Command-line arguments the model draws from: two share a base name.
InputPaths ==
    { MkPath("d1", "a", ".pdf"), MkPath("d2", "a", ".pdf"), MkPath("d1", "b", ".pdf") }

\* args.output_dir (line 82)
OutDir == "out"

\* Path(p).name: the last component, stem and suffix together
Name(p) == <<p.stem, p.suffix>>

\* Path(p).stem: the last component without its suffix
Stem(p) == p.stem

\* out_dir / f"{stem}.docx"
OutputPath(p) == MkPath(OutDir, Stem(p), ".docx")

OutPaths == { OutputPath(p) : p \in InputPaths }

\* ------------------------------------------------------------ formatting
Digits == <<"0", "1", "2", "3", "4", "5", "6", "7", "8", "9">>

\* str(n) for n >= 0, as the sequence of its decimal digits
RECURSIVE Str(_)
Str(n) == IF n < 10 THEN <<Digits[n + 1]>>
          ELSE Str(n \div 10) \o <<Digits[(n % 10) + 1]>>

\* f"Conversión de {pdf_file.name}"
TitleOfStem(p) == <<"Conversión de ", Stem(p)>>
Title(p) == <<"Conversión de ">> \o Name(p)

\* f'Página {i}'
PageLabel(i) == <<"Página ">> \o Str(i)

\* -------------------------------------------------------------- document
Element(k, t, l, a) == [kind |-> k, text |-> t, level |-> l, align |-> a]

\* doc.add_heading(text, level=l); alignment is the paragraph's default (0)
Heading(t, l) == Element("heading", t, l, 0)
\* doc.add_paragraph(text)
Paragraph(t) == Element("paragraph", <<t>>, 0, 0)
\* doc.add_page_break()
PageBreak == Element("pagebreak", <<>>, 0, 0)
\* the paragraph holding w:fldSimple with w:instr = 'TOC \h \z \u'
TocField == Element("toc", <<"TOC \\h \\z \\u">>, 0, 0)

\* add_table_of_contents(doc)
AddTocTwice(body) == body \o <<TocField, TocField>>
AddTableOfContents(body) == Append(body, TocField)

\* lines 50-52: the TOC heading, then the TOC field
TocHeader == AddTableOfContents(<<Heading(<<"Tabla de Contenidos">>, 1)>>)

\* pytesseract.image_to_string(page, lang): a page image is modelled by the
\* text the (deterministic) engine recognises on it
ImageToString(page) == page.text

\* lines 58-63: what one loop iteration appends for page i with OCR text t
PageElemsSkipEmpty(i, t) ==
    IF t = "" THEN <<>>
    ELSE (IF i > 1 THEN <<PageBreak>> ELSE <<>>)
         \o <<[Heading(PageLabel(i), 1) EXCEPT !.align = 1], Paragraph(t)>>
PageElemsBreakAlways(i, t) ==
    (IF i >= 1 THEN <<PageBreak>> ELSE <<>>)
    \o <<[Heading(PageLabel(i), 1) EXCEPT !.align = 1], Paragraph(t)>>
PageElems(i, t) ==
    (IF i > 1 THEN <<PageBreak>> ELSE <<>>)
    \o <<[Heading(PageLabel(i), 1) EXCEPT !.align = 1], Paragraph(t)>>

\* ----------------------------------------------------------- file system
\* An input file: absent, or a PDF of some pages.
Missing == [exists |-> FALSE, pages |-> <<>>]
Pdf(ps) == [exists |-> TRUE, pages |-> ps]

PageImages == { [text |-> t] : t \in Texts }
PageSeqs == UNION { [1..n -> PageImages] : n \in 0..MaxPages }

\* An output file: absent, or a document.
File(k, t, a, b) == [kind |-> k, title |-> t, author |-> a, body |-> b]
NoFile == File("none", <<>>, "", <<>>)
\* a document some other tool left at an output path before the run
Stale == File("docx", <<"old">>, "someone", <<Paragraph("old text")>>)
\* Document(): a fresh, empty document
NewDocument == File("docx", <<>>, "", <<>>)

\* doc.save(path): the file at path becomes the document
SaveFileAppend(fs, path, d) ==
    [fs EXCEPT ![path] = IF @.kind = "docx" THEN [d EXCEPT !.body = fs[path].body \o d.body] ELSE d]
SaveFile(fs, path, d) == [fs EXCEPT ![path] = d]

\* The output directory before the run: b.docx is there already, a.docx is not.
OutDirAtStart == [o \in OutPaths |-> IF o.stem = "b" THEN Stale ELSE NoFile]

\* ------------------------------------------------------------------ state
VARIABLES
    inputs,   \* args.pdfs
    disk,     \* the input files, by path
    outfs,    \* the files of the output directory, by path
    idx,      \* position of the driver's for loop in args.pdfs
    pc,       \* where control is
    pages,    \* pages (line 44)
    i,        \* i of the page loop (line 54)
    doc,      \* doc (line 46)
    calls,    \* the calls made to the external capabilities, in order
    log       \* the lines logged, in order

vars == <<inputs, disk, outfs, idx, pc, pages, i, doc, calls, log>>

Call(op, page, ok) == [job |-> idx, op |-> op, page |-> page, ok |-> ok]
Line(level, msg) == [job |-> idx, level |-> level, msg |-> msg]

Range(s) == { s[k] : k \in DOMAIN s }

Cur == inputs[idx]

Init ==
    /\ inputs \in UNION { [1..n -> InputPaths] : n \in 1..MaxInputs }
    /\ disk \in [InputPaths -> {Missing} \cup { Pdf(ps) : ps \in PageSeqs }]
    \* files not named on the command line are never looked at
    /\ \A p \in InputPaths \ Range(inputs) : disk[p] = Missing
    /\ outfs = OutDirAtStart
    /\ idx = 0
    /\ pc = "driver"
    /\ pages = <<>>
    /\ i = 0
    /\ doc = NoFile
    /\ calls = <<>>
    /\ log = <<>>

\* ----------------------------------------------------------------- driver
\* lines 85-94: the next pdf_path; the call's locals are fresh
DriverNext ==
    /\ pc = "driver"
    /\ idx < Len(inputs)
    /\ idx' = idx + 1
    /\ pc' = "resolve"
    /\ pages' = <<>>
    /\ i' = 0
    /\ doc' = NoFile
    /\ UNCHANGED <<inputs, disk, outfs, calls, log>>

\* line 96: after the loop
DriverFinish ==
    /\ pc = "driver"
    /\ idx = Len(inputs)
    /\ log' = Append(log, Line("INFO", "Proceso completado para todos los PDFs."))
    /\ pc' = "done"
    /\ UNCHANGED <<inputs, disk, outfs, idx, pages, i, doc, calls>>

\* --------------------------------------------------- pdf_to_word_with_toc
\* lines 38-41: the path does not exist
ResolveMissingGoesOn ==
    /\ pc = "resolve"
    /\ ~disk[Cur].exists
    /\ calls' = Append(calls, Call("exists", 0, FALSE))
    /\ log' = Append(log, Line("ERROR", "El PDF no existe"))
    /\ pc' = "rasterize"
    /\ UNCHANGED <<inputs, disk, outfs, idx, pages, i, doc>>
ResolveMissing ==
    /\ pc = "resolve"
    /\ ~disk[Cur].exists
    /\ calls' = Append(calls, Call("exists", 0, FALSE))
    /\ log' = Append(log, Line("ERROR", "El PDF no existe"))
    /\ pc' = "driver"
    /\ UNCHANGED <<inputs, disk, outfs, idx, pages, i, doc>>

\* lines 38-43: the path exists
ResolveFound ==
    /\ pc = "resolve"
    /\ disk[Cur].exists
    /\ calls' = Append(calls, Call("exists", 0, TRUE))
    /\ log' = Append(log, Line("INFO", "Convirtiendo a imágenes"))
    /\ pc' = "rasterize"
    /\ UNCHANGED <<inputs, disk, outfs, idx, pages, i, doc>>

\* line 44: convert_from_path returns every page of the file
RasterizeOk ==
    /\ pc = "rasterize"
    /\ pages' = disk[Cur].pages
    /\ calls' = Append(calls, Call("rasterize", 0, TRUE))
    /\ pc' = "header"
    /\ UNCHANGED <<inputs, disk, outfs, idx, i, doc, log>>

\* line 44: convert_from_path raises; nothing catches it
RasterizeFail ==
    /\ pc = "rasterize"
    /\ calls' = Append(calls, Call("rasterize", 0, FALSE))
    /\ pc' = "crashed"
    /\ UNCHANGED <<inputs, disk, outfs, idx, pages, i, doc, log>>

\* lines 46-52: the document, its properties, the TOC heading and field
BuildHeader ==
    /\ pc = "header"
    /\ doc' = [NewDocument EXCEPT !.title = Title(Cur),
                                  !.author = "pdf_to_word_with_toc",
                                  !.body = TocHeader]
    /\ i' = 1
    /\ pc' = "pages"
    /\ UNCHANGED <<inputs, disk, outfs, idx, pages, calls, log>>

\* lines 54-63: one iteration of the page loop, OCR succeeding
PageOk ==
    /\ pc = "pages"
    /\ i <= Len(pages)
    /\ log' = Append(log, Line("INFO", "Procesando página"))
    /\ calls' = Append(calls, Call("ocr", i, TRUE))
    /\ doc' = [doc EXCEPT !.body = @ \o PageElems(i, ImageToString(pages[i]))]
    /\ i' = i + 1
    /\ UNCHANGED <<inputs, disk, outfs, idx, pc, pages>>

\* lines 55-56: image_to_string raises; nothing catches it
PageFailCaught ==
    /\ pc = "pages"
    /\ i <= Len(pages)
    /\ log' = Append(Append(log, Line("INFO", "Procesando página")), Line("ERROR", "OCR"))
    /\ calls' = Append(calls, Call("ocr", i, FALSE))
    /\ pc' = "driver"
    /\ UNCHANGED <<inputs, disk, outfs, idx, pages, i, doc>>
PageFailSavesPartial ==
    /\ pc = "pages"
    /\ i <= Len(pages)
    /\ log' = Append(log, Line("INFO", "Procesando página"))
    /\ calls' = Append(calls, Call("ocr", i, FALSE))
    /\ outfs' = SaveFile(outfs, OutputPath(Cur), doc)
    /\ pc' = "crashed"
    /\ UNCHANGED <<inputs, disk, idx, pages, i, doc>>
PageFail ==
    /\ pc = "pages"
    /\ i <= Len(pages)
    /\ log' = Append(log, Line("INFO", "Procesando página"))
    /\ calls' = Append(calls, Call("ocr", i, FALSE))
    /\ pc' = "crashed"
    /\ UNCHANGED <<inputs, disk, outfs, idx, pages, i, doc>>

\* lines 65-67: the loop is over and doc.save succeeds
SaveOk ==
    /\ pc = "pages"
    /\ i > Len(pages)
    /\ outfs' = SaveFile(outfs, OutputPath(Cur), doc)
    /\ calls' = Append(calls, Call("save", 0, TRUE))
    /\ log' = Append(log, Line("INFO", "Guardado"))
    /\ pc' = "driver"
    /\ UNCHANGED <<inputs, disk, idx, pages, i, doc>>

\* lines 65-69: doc.save raises; the except clause logs and the call returns
SaveFailRaises ==
    /\ pc = "pages"
    /\ i > Len(pages)
    /\ outfs' = outfs
    /\ calls' = Append(calls, Call("save", 0, FALSE))
    /\ pc' = "crashed"
    /\ UNCHANGED <<inputs, disk, idx, pages, i, doc, log>>
SaveFail ==
    /\ pc = "pages"
    /\ i > Len(pages)
    /\ outfs' = outfs
    /\ calls' = Append(calls, Call("save", 0, FALSE))
    /\ log' = Append(log, Line("ERROR", "Error al guardar"))
    /\ pc' = "driver"
    /\ UNCHANGED <<inputs, disk, idx, pages, i, doc>>

Next ==
    \/ DriverNext
    \/ DriverFinish
    \/ ResolveMissing
    \/ ResolveFound
    \/ RasterizeOk
    \/ RasterizeFail
    \/ BuildHeader
    \/ PageOk
    \/ PageFail
    \/ SaveOk
    \/ SaveFail

Spec == Init /\ [][Next]_vars

\* ------------------------------------------------- reading a document
ToolAuthor == "pdf_to_word_with_toc"

Last(s) == s[Len(s)]

IsPageHeading(e) == e.kind = "heading" /\ Len(e.text) >= 1 /\ e.text[1] = "Página "

\* the page headings of a body, in document order
PageHeadings(body) == SelectSeq(body, IsPageHeading)

\* the positions in body of its page headings, in document order
PagePositions(body) ==
    LET AtHeading(p) == IsPageHeading(body[p])
    IN SelectSeq([p \in 1..Len(body) |-> p], AtHeading)

CountKind(body, kind) == Cardinality({ p \in DOMAIN body : body[p].kind = kind })

\* n page sections, the k-th labelled k, each a heading and then a paragraph
SectionsOk(body, n) ==
    LET pos == PagePositions(body) IN
    /\ Len(pos) = n
    /\ \A k \in 1..n :
         /\ body[pos[k]].text = <<"Página ">> \o Str(k)
         /\ body[pos[k]].level = 1
         /\ pos[k] < Len(body)
         /\ body[pos[k] + 1].kind = "paragraph"
    /\ CountKind(body, "paragraph") = n

\* no break before section 1, exactly one right before each later section
BreaksOk(body, n) ==
    LET pos == PagePositions(body) IN
    /\ CountKind(body, "pagebreak") = (IF n >= 1 THEN n - 1 ELSE 0)
    /\ Len(pos) = n
    /\ \A k \in 1..n :
         IF k = 1 THEN pos[k] > 1 /\ body[pos[k] - 1].kind = "toc"
         ELSE /\ pos[k] > 2
              /\ body[pos[k] - 1].kind = "pagebreak"
              /\ body[pos[k] - 2].kind # "pagebreak"

\* one TOC field, right after the TOC heading, before every page section
TocOk(body) ==
    /\ CountKind(body, "toc") = 1
    /\ Len(body) >= 2
    /\ body[1].kind = "heading" /\ body[1].text = <<"Tabla de Contenidos">>
    /\ body[2].kind = "toc" /\ body[2].text = <<"TOC \\h \\z \\u">>
    /\ \A p \in DOMAIN body : IsPageHeading(body[p]) => p > 2

\* the body of section k is the text of page k, as recognised
BodiesOk(body, pgs) ==
    LET pos == PagePositions(body) IN
    /\ Len(pos) = Len(pgs)
    /\ \A k \in 1..Len(pgs) :
         /\ pos[k] < Len(body)
         /\ body[pos[k] + 1] = [kind |-> "paragraph", text |-> <<pgs[k].text>>,
                                level |-> 0, align |-> 0]

\* f is the document the tool makes of the PDF at path p
WellFormedFor(f, p) ==
    /\ f.kind = "docx"
    /\ f.author = ToolAuthor
    /\ f.title = <<"Conversión de ", p.stem, p.suffix>>
    /\ TocOk(f.body)
    /\ SectionsOk(f.body, Len(disk[p].pages))
    /\ BreaksOk(f.body, Len(disk[p].pages))
    /\ BodiesOk(f.body, disk[p].pages)

\* ------------------------------------------------- reading the call trace
JobCallsOf(cs, j) == LET OfJob(c) == c.job = j IN SelectSeq(cs, OfJob)
JobCalls(j) == JobCallsOf(calls, j)

Saved(j) == \E m \in DOMAIN calls : calls[m].job = j /\ calls[m].op = "save" /\ calls[m].ok

\* job j had a failure the function contains: path not found, or save failed
ContainedFailure(j) ==
    \E m \in DOMAIN calls :
        /\ calls[m].job = j
        /\ calls[m].op \in {"exists", "save"}
        /\ ~calls[m].ok

\* job j wrote its output and no later job has written to the same path since
LastWriter(j) ==
    /\ Saved(j)
    /\ \A j2 \in (j + 1)..idx :
         OutputPath(inputs[j2]) = OutputPath(inputs[j]) => ~Saved(j2)

LoopDone == pc = "pages" /\ i > Len(pages)

IsExistsCall(c) == c.op = "exists"

\* ------------------------------------------------------------------ C1
\* C1: while a document is assembled it holds one page section per page
\* processed so far, the k-th labelled with page number k, in increasing
\* order; once the loop is over there are exactly N sections for the N pages
\* of the input, also when a page's text is empty.
C1_SectionPerPage ==
    pc = "pages" =>
        /\ pages = disk[Cur].pages
        /\ SectionsOk(doc.body, i - 1)
        /\ (i > Len(pages) => Len(PageHeadings(doc.body)) = Len(disk[Cur].pages))

C1_Witness ==
    /\ LoopDone
    /\ Len(pages) = 2
    /\ pages[1].text = ""
    /\ Len(PageHeadings(doc.body)) = 2

\* ------------------------------------------------------------------ C2
\* C2: section 1 follows the TOC field with no page break, every later
\* section is immediately preceded by exactly one page break, and an
\* N-page document (N >= 1) holds N-1 page breaks.
C2_PageBreaks ==
    pc = "pages" =>
        /\ BreaksOk(doc.body, i - 1)
        /\ (i > Len(pages) /\ Len(pages) >= 1 =>
                CountKind(doc.body, "pagebreak") = Len(pages) - 1)

C2_Witness ==
    /\ LoopDone
    /\ Len(pages) = 2
    /\ CountKind(doc.body, "pagebreak") = 1

\* ------------------------------------------------------------------ C3
\* C3: from the moment the TOC is emitted, and in every document the run
\* has saved, the TOC field occurs exactly once, right after the TOC
\* heading, and before every page section (also for N = 0).
C3_TocOnce ==
    /\ pc = "pages" => TocOk(doc.body)
    /\ \A o \in OutPaths : outfs[o] # OutDirAtStart[o] => TocOk(outfs[o].body)

C3_Witness ==
    /\ pc = "done"
    /\ \E o \in OutPaths : outfs[o] # OutDirAtStart[o] /\ Len(outfs[o].body) = 2
    /\ \E o \in OutPaths : outfs[o] # OutDirAtStart[o] /\ Len(outfs[o].body) > 2

\* ------------------------------------------------------------------ C4
C4_MissingInv ==
    \A j \in 1..idx :
        (~disk[inputs[j]].exists /\ (j < idx \/ pc # "resolve")) =>
            /\ JobCalls(j) = <<[job |-> j, op |-> "exists", page |-> 0, ok |-> FALSE]>>
            /\ \E m \in DOMAIN log : log[m].job = j /\ log[m].level = "ERROR"
            /\ (j = idx => pc \in {"driver", "done"})

C4_MissingStep ==
    (idx >= 1 /\ pc = "resolve" /\ ~disk[inputs[idx]].exists) =>
        (outfs' = outfs /\ pc' = "driver")

\* C4: when the input path does not exist the call logs an error and
\* returns: the only call made for that document is the existence check,
\* the batch has not crashed on it, and the output directory is untouched.
C4_MissingInput == []C4_MissingInv /\ [][C4_MissingStep]_vars

C4_Witness ==
    /\ pc = "driver"
    /\ idx = 1
    /\ ~disk[inputs[1]].exists
    /\ outfs = OutDirAtStart

\* ------------------------------------------------------------------ C5
\* C5: a path that is not found or a save that fails never ends the batch:
\* the batch only crashes on a failed rasterizer or OCR call, the inputs are
\* resolved one after the other in order, all of them once the batch is
\* done, and between documents and at the end every input whose save
\* succeeded has a correctly structured document at its output path (until
\* a later input writes the same path).
C5_ContainedFailures ==
    /\ pc = "crashed" => (~Last(calls).ok /\ Last(calls).op \in {"rasterize", "ocr"})
    /\ LET es == SelectSeq(calls, IsExistsCall) IN
       /\ \A k \in DOMAIN es : es[k].job = k
       /\ Len(es) = (IF pc = "resolve" THEN idx - 1 ELSE idx)
       /\ (pc = "done" => Len(es) = Len(inputs))
    /\ \A j \in 1..idx :
         ContainedFailure(j) => (j < idx \/ pc \in {"driver", "done"})
    /\ pc \in {"driver", "done"} =>
         \A j \in 1..idx :
             LastWriter(j) => WellFormedFor(outfs[OutputPath(inputs[j])], inputs[j])

C5_Witness ==
    /\ pc = "done"
    /\ Len(inputs) = 2
    /\ ContainedFailure(1)
    /\ Saved(2)
    /\ Len(disk[inputs[2]].pages) = 2

\* ------------------------------------------------------------------ C6
\* C6: after a batch of pairwise different input paths in which every input
\* exists and every save succeeds, the run has written as many files as
\* there are inputs and each input's document is at its output path.
C6_OneFilePerInput ==
    (/\ pc = "done"
     /\ \A j \in DOMAIN inputs : Saved(j)
     /\ \A j, k \in DOMAIN inputs : j # k => inputs[j] # inputs[k])
    =>
    /\ Cardinality({ o \in OutPaths : outfs[o] # OutDirAtStart[o] }) = Len(inputs)
    /\ \A j \in DOMAIN inputs : WellFormedFor(outfs[OutputPath(inputs[j])], inputs[j])

SaveOkStep ==
    /\ LoopDone
    /\ calls' = Append(calls, [job |-> idx, op |-> "save", page |-> 0, ok |-> TRUE])

SameInputWroteLast ==
    \E j \in 1..(idx - 1) : inputs[j] = Cur /\ LastWriter(j)

C8_SaveStep ==
    SaveOkStep =>
        /\ outfs'[OutputPath(Cur)] = doc
        /\ (SameInputWroteLast => outfs'[OutputPath(Cur)] = outfs[OutputPath(Cur)])

\* C8: a successful save puts exactly the assembled document at the output
\* path, whatever was there before; when what was there is the output of an
\* earlier conversion of the same input, the file's content does not change.
C8_Idempotent == [][C8_SaveStep]_vars

C8_Witness ==
    /\ pc = "driver"
    /\ idx = 2
    /\ inputs[1] = inputs[2]
    /\ inputs[1].stem = "b"
    /\ Saved(1)
    /\ Saved(2)
    /\ Len(disk[inputs[1]].pages) = 2
    /\ outfs[OutputPath(inputs[2])] = doc

\* ------------------------------------------------------------------ C9
C9_CrashedInv ==
    pc = "crashed" =>
        /\ ~Last(calls).ok
        /\ Last(calls).op \in {"rasterize", "ocr"}
        /\ Last(calls).job = idx
        /\ \A m \in DOMAIN calls : calls[m].job <= idx
        /\ \A m \in DOMAIN log :
             /\ log[m].job <= idx
             /\ log[m].msg # "Proceso completado para todos los PDFs."

C9_FailStep ==
    (/\ calls' # calls
     /\ ~Last(calls').ok
     /\ Last(calls').op \in {"rasterize", "ocr"})
    => (pc' = "crashed" /\ outfs' = outfs)

\* C9: a failed rasterizer or OCR call crashes the batch in that very step
\* and leaves the written outputs alone; after the crash nothing happens
\* any more: no call or log line of a later input, no final log line.
C9_Uncaught ==
    /\ []C9_CrashedInv
    /\ [][C9_FailStep]_vars
    /\ [][pc # "crashed"]_vars

C9_Witness ==
    /\ pc = "crashed"
    /\ Len(inputs) = 2
    /\ idx = 1
    /\ Last(calls).op = "ocr"

\* ------------------------------------------------------------------ C10
ExpectedCall(m, n) ==
    IF m = 1 THEN <<"exists", 0>>
    ELSE IF m = 2 THEN <<"rasterize", 0>>
    ELSE IF m <= n + 2 THEN <<"ocr", m - 2>>
    ELSE <<"save", 0>>

C10_OrderInv ==
    /\ \A j \in 1..idx :
         LET cs == JobCalls(j)
             n == Len(disk[inputs[j]].pages)
         IN /\ Len(cs) <= n + 3
            /\ \A m \in DOMAIN cs :
                 /\ <<cs[m].op, cs[m].page>> = ExpectedCall(m, n)
                 /\ (~cs[m].ok => m = Len(cs))
    /\ pc = "pages" => pages = disk[Cur].pages

C10_WriteStep ==
    outfs' # outfs =>
        LET n == Len(disk[Cur].pages) IN
        /\ Len(JobCallsOf(calls, idx)) = n + 2
        /\ \A m \in DOMAIN JobCallsOf(calls, idx) : JobCallsOf(calls, idx)[m].ok
        /\ calls' = Append(calls, [job |-> idx, op |-> "save", page |-> 0, ok |-> TRUE])
        /\ \A o \in OutPaths : o # OutputPath(Cur) => outfs'[o] = outfs[o]
        /\ Len(PageHeadings(outfs'[OutputPath(Cur)].body)) = n

\* C10: the calls made for one document are a prefix of: existence check,
\* rasterizer, OCR of page 1, ..., OCR of page N, save; a failed call is
\* the last one; the pages are all there before the first OCR call; and the
\* output directory only changes in the step that makes the save call after
\* all N OCR calls, which writes a document of N sections.
C10_Sequential == []C10_OrderInv /\ [][C10_WriteStep]_vars

C10_Witness ==
    /\ pc = "crashed"
    /\ Last(calls).op = "ocr"
    /\ Last(calls).page = 2
    /\ Len(PageHeadings(doc.body)) = 1
    /\ outfs = OutDirAtStart

====
